---- MODULE Spec2Model ----
(***************************************************************************)
(* Sheet / column identification and alias learning of the data-onboarding *)
(* utility (controller.py, ai_utils.py, models.py, db_utils.py, app.py).   *)
(*                                                                         *)
(* The module holds state machines over disjoint variables:                *)
(*   Spec        the sessions: table selection, identification runs and    *)
(*               the alias file they share;                                *)
(*   SpecOverlap the same sessions with runs that overlap in time;         *)
(*   SpecApply   apply_column_mappings on drawn tables and mappings;       *)
(*   SpecColumn  identify_column on drawn oracle responses;                *)
(*   SpecSheet   identify_target_sheet on drawn workbooks and responses;   *)
(*   SpecDb      save_to_database as one transaction on its connection;    *)
(*   SpecWait    the oracle calls of one run and the waiting for them;     *)
(*   SpecPage    the script runs of app.main on upload and on overrides;   *)
(*   SpecRows    deletion of rows by index, as specified;                  *)
(*   SpecBatch   one call of identify_columns_with_threads, task by task.  *)
(***************************************************************************)
EXTENDS Integers, Sequences, FiniteSets, TLC

VARIABLES
    \* ---- SpecApply
    ap_pc,          \* "ready" | "done"
    ap_df,          \* the source table handed to apply_column_mappings
    ap_mappings,    \* the mapping handed to it (a dict: insertion ordered)
    ap_result,      \* the table it returned
    \* ---- SpecColumn
    co_pc,          \* "ready" | "done"
    co_in,          \* the inputs of one identify_column call
    co_out,         \* what the call did: returned a value, or raised
    \* ---- SpecSheet
    sh_pc,          \* "ready" | "done"
    sh_in,          \* the inputs of one identify_target_sheet call
    sh_out,         \* what the call did: returned a value, or raised
    \* ---- Spec: the sessions and the alias file
    file,           \* historical_column_variations.json
    selected_table, \* per session: "<schema>.<table>" of st.session_state
    table_selected, \* per session: st.session_state.table_selected
    TARGET_COLUMNS, \* per session: the registry, [name, historical_variations]
    pc,             \* per session: where its handler stands
    run,            \* per session: the locals of its identification run
    result,         \* per session: what identify_sheet_and_columns returned
    last,           \* per session: its latest saved run (history)
    budget,         \* runs and selections left to start
    \* ---- SpecDb
    conn,           \* one save_to_database call and the destination table
    \* ---- SpecWait
    wait,           \* the oracle calls of one run and what the oracle does
    \* ---- SpecPage
    page,           \* the page of app.main: oracle calls made, widget values
    \* ---- SpecRows
    grid,           \* the formatted table and the latest deletion of rows
    \* ---- SpecBatch
    batch           \* one call of identify_columns_with_threads, task by task

apVars == <<ap_pc, ap_df, ap_mappings, ap_result>>

coVars == <<co_pc, co_in, co_out>>

shVars == <<sh_pc, sh_in, sh_out>>

mnVars == <<file, selected_table, table_selected, TARGET_COLUMNS, pc, run, result,
            last, budget>>

xVars == <<conn, wait, page, grid, batch>>

(***************************************************************************)
(* Generic helpers                                                         *)
(***************************************************************************)
Range(s) == {s[i] : i \in DOMAIN s}

SeqsUpTo(S, n) == UNION {[1..k -> S] : k \in 0..n}

NoDup(s) == \A i, j \in DOMAIN s : i # j => s[i] # s[j]

IsPrefix(s, t) == Len(s) <= Len(t) /\ \A i \in DOMAIN s : s[i] = t[i]

\* Python's None
NoneV == "<None>"

(***************************************************************************)
(* Python dicts keep insertion order: a dict is a sequence of items        *)
(* [k, v] with distinct keys.                                              *)
(***************************************************************************)
DictKeys(d) == {d[i].k : i \in DOMAIN d}

DictKeyList(d) == [i \in DOMAIN d |-> d[i].k]

DictValue(d, key) == d[CHOOSE i \in DOMAIN d : d[i].k = key].v

\* d[key] = value: a present key keeps its position, a new key goes last
DictSet(d, key, value) ==
    IF key \in DictKeys(d)
    THEN [i \in DOMAIN d |-> IF d[i].k = key THEN [k |-> key, v |-> value] ELSE d[i]]
    ELSE Append(d, [k |-> key, v |-> value])

(***************************************************************************)
(* The data of the model                                                   *)
(***************************************************************************)
\* models.DEFAULT_TARGET_COLUMNS, the names in declared order (the first
\* three of the five)
DEFAULT_TARGET_COLUMNS == <<"account_id", "balance", "open_date">>

\* the uploaded workbook: its sheets in order and the header row of each
SheetNames == <<"Sheet1", "Sheet2">>

SheetColumns(s) == IF s = "Sheet1" THEN <<"Acct No", "Bal">> ELSE <<"Bal", "Open Dt">>

MaxRows == 2

CellValues == {"x", "y"}

NaN == "NaN"

(***************************************************************************)
(* pandas DataFrame: ordered column labels, row labels (index) and one     *)
(* value list per column.                                                  *)
(***************************************************************************)
\* pd.DataFrame()
EmptyFrame == [columns |-> <<>>, index |-> <<>>, data |-> [c \in {} |-> <<>>]]

\* pd.read_excel: a RangeIndex 0..n-1
RangeIndex(n) == [i \in 1..n |-> i - 1]

\* df[excel_col]
Series(df, c) == [index |-> df.index, values |-> df.data[c]]

\* the value a series holds at a row label, NaN where it has none
AtLabel(s, label) ==
    IF \E i \in DOMAIN s.index : s.index[i] = label
    THEN s.values[CHOOSE i \in DOMAIN s.index : s.index[i] = label]
    ELSE NaN

\* a plausible slip: the new column always takes the frame's current index
SetItemKeepIndex(frame, name, s) ==
    LET cols == IF name \in Range(frame.columns) THEN frame.columns
                ELSE Append(frame.columns, name)
    IN  [columns |-> cols,
         index   |-> frame.index,
         data    |-> [c \in Range(cols) |->
                        IF c = name
                        THEN [i \in DOMAIN frame.index |-> AtLabel(s, frame.index[i])]
                        ELSE frame.data[c]]]

\* result_df[name] = s  (DataFrame.__setitem__ with a Series): a frame
\* without rows takes over the index of a non-empty series, otherwise the
\* series is aligned to the frame's index
SetItem(frame, name, s) ==
    LET adopt == Len(frame.index) = 0 /\ Len(s.values) > 0
        idx   == IF adopt THEN s.index ELSE frame.index
        cols  == IF name \in Range(frame.columns) THEN frame.columns
                 ELSE Append(frame.columns, name)
    IN  [columns |-> cols,
         index   |-> idx,
         data    |-> [c \in Range(cols) |->
                        IF c = name
                        THEN [i \in DOMAIN idx |-> AtLabel(s, idx[i])]
                        ELSE IF adopt THEN [i \in DOMAIN idx |-> NaN]
                        ELSE frame.data[c]]]

(***************************************************************************)
(* controller.apply_column_mappings                                        *)
(***************************************************************************)
RECURSIVE ApplyLoopNoCheck(_, _, _, _)
\* a plausible slip: every item is copied from the first source column
ApplyLoopNoCheck(df, mappings, i, result_df) ==
    IF i > Len(mappings) THEN result_df
    ELSE ApplyLoopNoCheck(df, mappings, i + 1,
            IF mappings[i].v \in Range(df.columns)
            THEN SetItem(result_df, mappings[i].k, Series(df, df.columns[1]))
            ELSE result_df)

RECURSIVE ApplyLoop(_, _, _, _)
\* for target_col, excel_col in mappings.items(): ...
ApplyLoop(df, mappings, i, result_df) ==
    IF i > Len(mappings) THEN result_df
    ELSE ApplyLoop(df, mappings, i + 1,
            IF mappings[i].v \in Range(df.columns)
            THEN SetItem(result_df, mappings[i].k, Series(df, mappings[i].v))
            ELSE result_df)

apply_column_mappings(df, mappings) == ApplyLoop(df, mappings, 1, EmptyFrame)

(***************************************************************************)
(* SpecApply: apply_column_mappings on every table of at most MaxRows rows *)
(* read from a sheet and every mapping over the registry's targets.        *)
(***************************************************************************)
\* the tables pd.read_excel can return for the workbook's sheets
Frames ==
    {[columns |-> SheetColumns(s), index |-> RangeIndex(n), data |-> d] :
        <<s, n, d>> \in UNION {
            {<<s, n, d>> : d \in [Range(SheetColumns(s)) -> [1..n -> CellValues]]} :
                <<s, n>> \in Range(SheetNames) \X (0..MaxRows)}}

AllSourceColumns == UNION {Range(SheetColumns(s)) : s \in Range(SheetNames)}

\* every dict target -> source column: any subset of the targets, in any
\* insertion order (the coordinator inserts in completion order)
Mappings ==
    {m \in SeqsUpTo([k : Range(DEFAULT_TARGET_COLUMNS), v : AllSourceColumns],
                    Len(DEFAULT_TARGET_COLUMNS)) : NoDup(DictKeyList(m))}

ApInit ==
    /\ ap_pc = "ready"
    /\ ap_df \in Frames
    /\ ap_mappings \in Mappings
    /\ ap_result = EmptyFrame

ApIdle ==
    /\ ap_pc = "off"
    /\ ap_df = EmptyFrame
    /\ ap_mappings = <<>>
    /\ ap_result = EmptyFrame

ApplyMappings ==
    /\ ap_pc = "ready"
    /\ ap_result' = apply_column_mappings(ap_df, ap_mappings)
    /\ ap_pc' = "done"
    /\ UNCHANGED <<ap_df, ap_mappings>>

ApNext == ApplyMappings /\ UNCHANGED <<coVars, shVars, mnVars, xVars>>

(***************************************************************************)
(* The classification oracle (client.chat.completions.create): the call    *)
(* errors, or it returns a text that is no JSON, a JSON array, or a JSON   *)
(* object.  obj is the object's content, key -> value.                     *)
(***************************************************************************)
JsonNull == "<null>"

OracleFailures ==
    {[kind |-> k, obj |-> <<>>] : k \in {"error", "notjson", "array"}}

JsonObject(o) == [kind |-> "object", obj |-> o]

\* the objects over a set of keys and a set of values (dicts of <= 2 items)
JsonObjects(keys, values) ==
    {o \in SeqsUpTo([k : keys, v : values], 2) :
        NoDup(DictKeyList(o))}

\* what a call did
Returned(x) == [kind |-> "return", value |-> x]

Raised == [kind |-> "raise", value |-> NoneV]

\* Python truthiness of a JSON value: None and "" are falsy
Falsy(x) == x \in {NoneV, JsonNull, ""}

\* dict.get(key): None when the key is missing
JsonGet(o, key) == IF key \in DictKeys(o) THEN DictValue(o, key) ELSE NoneV

(***************************************************************************)
(* ai_utils.identify_column.  promptOk: the prompt could be built and its  *)
(* tokens counted (lines 152-195, outside the try).                        *)
(***************************************************************************)
\* a plausible slip: the membership check of line 218 is left out
identify_column_unchecked(columns, target, promptOk, response) ==
    IF ~promptOk THEN Raised
    ELSE IF response.kind # "object" THEN Returned(NoneV)
    ELSE LET guessed_column == JsonGet(response.obj, target)
         IN  IF Falsy(guessed_column) THEN Returned(NoneV)
             ELSE Returned(guessed_column)

identify_column(columns, target, promptOk, response) ==
    IF ~promptOk THEN Raised
    ELSE IF response.kind # "object" THEN Returned(NoneV)
    ELSE LET guessed_column == JsonGet(response.obj, target)
         IN  IF Falsy(guessed_column) THEN Returned(NoneV)
             ELSE IF guessed_column \notin Range(columns) THEN Returned(NoneV)
             ELSE Returned(guessed_column)

\* the values an oracle may put under a key: the source columns of the
\* workbook, a name in no sheet, a case variant of a real name, "" and null
ColumnAnswers == AllSourceColumns \cup {"Ghost", "bal", "", JsonNull}

ColumnResponses(target) ==
    OracleFailures \cup
    {JsonObject(o) : o \in JsonObjects({target, "extra"}, ColumnAnswers)}

CoInit ==
    /\ co_pc = "ready"
    /\ co_in \in [columns  : {SheetColumns(s) : s \in Range(SheetNames)},
                  target   : Range(DEFAULT_TARGET_COLUMNS),
                  promptOk : BOOLEAN,
                  response : UNION {ColumnResponses(t) : t \in Range(DEFAULT_TARGET_COLUMNS)}]
    /\ co_out = Returned(NoneV)

CoIdle ==
    /\ co_pc = "off"
    /\ co_in = <<>>
    /\ co_out = Returned(NoneV)

IdentifyColumn ==
    /\ co_pc = "ready"
    /\ co_out' = identify_column(co_in.columns, co_in.target, co_in.promptOk, co_in.response)
    /\ co_pc' = "done"
    /\ UNCHANGED co_in

CoNext == IdentifyColumn /\ UNCHANGED <<apVars, shVars, mnVars, xVars>>

(***************************************************************************)
(* ai_utils.identify_target_sheet.  A workbook: whether pd.ExcelFile opens *)
(* it, the sheets pd.read_excel cannot read, the sheets whose header or    *)
(* first rows json.dumps cannot serialize (dates), and whether the tokens  *)
(* of the prompt can be counted.                                           *)
(***************************************************************************)
Workbooks ==
    [opens      : BOOLEAN,
     unreadable : SUBSET Range(SheetNames),
     dated      : SUBSET Range(SheetNames),
     tokensOk   : BOOLEAN]

\* sheet_data.keys(): the sheets whose columns and sample go into the prompt
SuppliedSheets(wb) == Range(SheetNames) \ wb.unreadable

\* a plausible slip: the prompt is built inside the try of line 104
identify_target_sheet_guarded(wb, response) ==
    IF ~wb.opens THEN Returned(NoneV)
    ELSE IF SuppliedSheets(wb) \cap wb.dated # {} THEN Returned(NoneV)
    ELSE IF ~wb.tokensOk THEN Returned(NoneV)
    ELSE IF response.kind # "object" THEN Returned(NoneV)
    ELSE IF "target_sheet" \notin DictKeys(response.obj) THEN Returned(NoneV)
    ELSE LET target_sheet == DictValue(response.obj, "target_sheet")
         IN  IF target_sheet \notin Range(SheetNames) THEN Returned(NoneV)
             ELSE Returned(target_sheet)

identify_target_sheet(wb, response) ==
    \* lines 43-48
    IF ~wb.opens THEN Returned(NoneV)
    \* lines 70-73: json.dumps of a read sheet's columns and sample
    ELSE IF SuppliedSheets(wb) \cap wb.dated # {} THEN Raised
    \* line 101
    ELSE IF ~wb.tokensOk THEN Raised
    \* lines 104-136
    ELSE IF response.kind # "object" THEN Returned(NoneV)
    ELSE IF "target_sheet" \notin DictKeys(response.obj) THEN Returned(NoneV)
    ELSE LET target_sheet == DictValue(response.obj, "target_sheet")
         IN  IF target_sheet \notin Range(SheetNames) THEN Returned(NoneV)
             ELSE Returned(target_sheet)

SheetAnswers == Range(SheetNames) \cup {"Summary", "", JsonNull}

SheetResponses ==
    OracleFailures \cup
    {JsonObject(o) : o \in JsonObjects({"target_sheet", "extra"}, SheetAnswers)}

ShInit ==
    /\ sh_pc = "ready"
    /\ sh_in \in [wb : Workbooks, response : SheetResponses]
    /\ sh_out = Returned(NoneV)

ShIdle ==
    /\ sh_pc = "off"
    /\ sh_in = <<>>
    /\ sh_out = Returned(NoneV)

IdentifyTargetSheet ==
    /\ sh_pc = "ready"
    /\ sh_out' = identify_target_sheet(sh_in.wb, sh_in.response)
    /\ sh_pc' = "done"
    /\ UNCHANGED sh_in

ShNext == IdentifyTargetSheet /\ UNCHANGED <<apVars, coVars, mnVars, xVars>>

(***************************************************************************)
(* Spec: the sessions.  Every session of the Streamlit process runs the    *)
(* handlers of controller.py in its own thread; the sessions share the     *)
(* alias file.  A step is one handler stretch between two accesses of the  *)
(* file.                                                                   *)
(***************************************************************************)
Sessions == {1, 2}

\* models.AVAILABLE_TABLES, as "<schema>.<table>"
Tables == {"dbo.Accounts", "dbo.Customers"}

\* the columns INFORMATION_SCHEMA lists for a table, lower-cased, in
\* ordinal order
DbColumns(t) ==
    IF t = "dbo.Accounts" THEN <<"account_id", "balance">> ELSE <<"customer_name">>

\* runs of identify_sheet_and_columns and calls of select_database_table a
\* session makes when it works alone (Spec)
MaxRuns == 2

MaxSelects == 2

\* the same for each of two sessions at work at once (SpecOverlap)
OverlapRuns == 1

OverlapSelects == 1

EmptyDict == [c \in {} |-> <<>>]

\* ---- the alias file: missing, not valid JSON, or a store
\*      table identifier -> (target column -> alias list)
Missing == [st |-> "missing", data |-> EmptyDict]

Malformed == [st |-> "malformed", data |-> EmptyDict]

Stored(store) == [st |-> "ok", data |-> store]

InitialFiles ==
    { Missing,
      Malformed,
      Stored([t \in {"dbo.Customers"} |-> [c \in {"customer_name"} |-> <<"Bal">>]]),
      Stored([t \in Tables |->
                IF t = "dbo.Accounts"
                THEN [c \in {"account_id", "balance"} |->
                        IF c = "account_id" THEN <<"Acct No">> ELSE <<>>]
                ELSE [c \in {"customer_name"} |-> <<"Open Dt">>]]) }

\* json.load(f) succeeds
Readable(f) == f.st = "ok"

\* all_mappings.get(current_table, {})
GetPartition(store, t) == IF t \in DOMAIN store THEN store[t] ELSE EmptyDict

\* historical_variations.get(column_name, [])
GetAliases(partition, c) == IF c \in DOMAIN partition THEN partition[c] ELSE <<>>

\* a plausible slip: the store is written back as it was read, the table's
\* entry without what the run learned
PutStale(store, t, partition) ==
    [u \in DOMAIN store \cup {t} |-> GetPartition(store, u)]

\* all_mappings[current_table] = historical_mappings
PutPartition(store, t, partition) ==
    [u \in DOMAIN store \cup {t} |-> IF u = t THEN partition ELSE store[u]]

\* ---- the registry
Names(cols) == [i \in DOMAIN cols |-> cols[i].name]

\* TargetColumn(name, ...) with no known variation
Column(n) == [name |-> n, historical_variations |-> <<>>]

DefaultRegistry == [i \in 1..2 |-> Column(DEFAULT_TARGET_COLUMNS[i])]

AllTargets == Range(DEFAULT_TARGET_COLUMNS) \cup UNION {Range(DbColumns(t)) : t \in Tables}

\* db_utils.generate_target_columns_from_db, given the table has columns:
\* every column takes its variations from the alias file when it can be read
generate_target_columns_from_db(t, f) ==
    LET historical_variations ==
            IF Readable(f) THEN GetPartition(f.data, t) ELSE EmptyDict
    IN  [i \in DOMAIN DbColumns(t) |->
            [name |-> DbColumns(t)[i],
             historical_variations |-> GetAliases(historical_variations, DbColumns(t)[i])]]

\* controller.load_historical_variations, lines 44-49: the registry's columns
\* take the lists of the table's partition
LoadedVariations(cols, table_variations) ==
    [i \in DOMAIN cols |->
        IF cols[i].name \in DOMAIN table_variations
        THEN [cols[i] EXCEPT !.historical_variations = table_variations[cols[i].name]]
        ELSE cols[i]]

\* lines 55-60: {current_table: {col_name: [] for every registry column}}
EmptyStructure(t, cols) ==
    [u \in {t} |-> [c \in Range(Names(cols)) |-> <<>>]]

\* ---- identify_sheet_and_columns, its result dict and error strings
NoResult == [target_sheet |-> NoneV, column_mappings |-> <<>>, success |-> FALSE,
             error |-> NoneV, warnings |-> {}]

ErrNoData == "No valid Excel data to process"

ErrNoFile == "No uploaded file in session state"

ErrSheet == "Could not identify target sheet"

ErrLoad == "Could not load data for sheet"

WarnSave == "Could not save historical column variations"

\* the warning of load_historical_variations (line 51)
WarnLoad == "Could not load historical column variations"

Failure(error) == [NoResult EXCEPT !.error = error]

NotCalled == [kind |-> "none", value |-> NoneV]

\* the locals of a run: the sheet classifier's outcome, current_table, df's
\* sheet, historical_mappings, the futures not yet collected, each task's
\* outcome (kept until the coordinator has returned), column_mappings,
\* all_mappings; written: the run dumped the file;
\* torn: another writer dumped since this one opened the file; loader: a
\* load_historical_variations created the file since the run began;
\* store: what the run found when it opened the file to load its partition;
\* before: the file as it was when the writer opened it (while it is open)
NoRun == [sheetOut |-> NotCalled, table |-> NoneV, sheet |-> NoneV,
          historical_mappings |-> EmptyDict, pending |-> {}, outcome |-> EmptyDict,
          column_mappings |-> <<>>, all_mappings |-> EmptyDict,
          written |-> FALSE, torn |-> FALSE, loader |-> FALSE,
          store |-> NoneV, before |-> Missing]

NoLast == [valid |-> FALSE, table |-> NoneV, mapping |-> {}, saved |-> EmptyDict,
           repeat |-> FALSE, before |-> EmptyDict]

\* a session is between two handlers
Idle(p) == pc[p] \in {"idle", "done", "raised"}

\* historical_mappings.setdefault(column.name, []) for every registry column
SetDefaults(partition, cols) ==
    [c \in DOMAIN partition \cup Range(Names(cols)) |-> GetAliases(partition, c)]

\* ai_utils lines 259-265, one future: a returned, truthy column is entered
\* under its target; None and an exception of the thread enter nothing
\* (a plausible slip: a failure discards what the siblings entered)
CollectResultAborting(column_mappings, column_name, out) ==
    IF out.kind = "return" /\ ~Falsy(out.value)
    THEN DictSet(column_mappings, column_name, out.value)
    ELSE <<>>

\* (a plausible slip: the entry is made under the source column, as the
\* page's selectboxes do)
CollectResultBySource(column_mappings, column_name, out) ==
    IF out.kind = "return" /\ ~Falsy(out.value)
    THEN DictSet(column_mappings, out.value, column_name)
    ELSE column_mappings

CollectResult(column_mappings, column_name, out) ==
    IF out.kind = "return" /\ ~Falsy(out.value)
    THEN DictSet(column_mappings, column_name, out.value)
    ELSE column_mappings

RECURSIVE AppendAlways(_, _, _)
\* a plausible slip: the membership test of line 270 is left out
AppendAlways(historical_mappings, column_mappings, i) ==
    IF i > Len(column_mappings) THEN historical_mappings
    ELSE LET column_name == column_mappings[i].k
             guessed_column == column_mappings[i].v
         IN  AppendAlways(
                 [historical_mappings EXCEPT
                     ![column_name] = Append(historical_mappings[column_name], guessed_column)],
                 column_mappings, i + 1)

RECURSIVE AppendNew(_, _, _)
\* ai_utils lines 269-271
AppendNew(historical_mappings, column_mappings, i) ==
    IF i > Len(column_mappings) THEN historical_mappings
    ELSE LET column_name == column_mappings[i].k
             guessed_column == column_mappings[i].v
         IN  AppendNew(
                 IF guessed_column \in Range(historical_mappings[column_name])
                 THEN historical_mappings
                 ELSE [historical_mappings EXCEPT
                         ![column_name] = Append(historical_mappings[column_name], guessed_column)],
                 column_mappings, i + 1)

\* ai_utils lines 267-271: an empty dict is falsy and is left alone
UpdateHistorical(historical_mappings, column_mappings, update_historical) ==
    IF update_historical /\ DOMAIN historical_mappings # {}
    THEN AppendNew(historical_mappings, column_mappings, 1)
    ELSE historical_mappings

\* a dict as the set of its items
Items(d) == {<<d[i].k, d[i].v>> : i \in DOMAIN d}

MnInit ==
    /\ file \in InitialFiles
    /\ selected_table = [p \in Sessions |-> NoneV]
    /\ table_selected = [p \in Sessions |-> FALSE]
    /\ TARGET_COLUMNS = [p \in Sessions |-> DefaultRegistry]
    /\ pc = [p \in Sessions |-> "idle"]
    /\ run = [p \in Sessions |-> NoRun]
    /\ result = [p \in Sessions |-> NoResult]
    /\ last = [p \in Sessions |-> NoLast]
    /\ budget = [p \in Sessions |->
                    IF p = 1 THEN [runs |-> MaxRuns, selects |-> MaxSelects]
                    ELSE [runs |-> 0, selects |-> 0]]

MnInitOverlap ==
    /\ file \in {f \in InitialFiles : Readable(f) /\ DOMAIN f.data = Tables}
    /\ selected_table = [p \in Sessions |-> NoneV]
    /\ table_selected = [p \in Sessions |-> FALSE]
    /\ TARGET_COLUMNS = [p \in Sessions |-> DefaultRegistry]
    /\ pc = [p \in Sessions |-> "idle"]
    /\ run = [p \in Sessions |-> NoRun]
    /\ result = [p \in Sessions |-> NoResult]
    /\ last = [p \in Sessions |-> NoLast]
    /\ budget = [p \in Sessions |-> [runs |-> OverlapRuns, selects |-> OverlapSelects]]

MnIdle ==
    /\ file = Missing
    /\ selected_table = [p \in Sessions |-> NoneV]
    /\ table_selected = [p \in Sessions |-> FALSE]
    /\ TARGET_COLUMNS = [p \in Sessions |-> DefaultRegistry]
    /\ pc = [p \in Sessions |-> "off"]
    /\ run = [p \in Sessions |-> NoRun]
    /\ result = [p \in Sessions |-> NoResult]
    /\ last = [p \in Sessions |-> NoLast]
    /\ budget = [p \in Sessions |-> [runs |-> 0, selects |-> 0]]

\* ---- select_database_table --------------------------------------------
\* controller lines 81-93: the selection is stored, the columns are loaded
\* from the database (the connection fails, the table has no columns, or it
\* has DbColumns) and, with columns, the registry is replaced
SelectTable(p, t, db) ==
    /\ Idle(p)
    /\ budget[p].selects > 0
    /\ budget' = [budget EXCEPT ![p].selects = @ - 1]
    /\ selected_table' = [selected_table EXCEPT ![p] = t]
    /\ last' = [last EXCEPT ![p] = NoLast]
    /\ CASE db = "raises" ->
              /\ pc' = [pc EXCEPT ![p] = "idle"]
              /\ UNCHANGED <<table_selected, TARGET_COLUMNS>>
         [] db = "empty" ->
              /\ table_selected' = [table_selected EXCEPT ![p] = TRUE]
              /\ pc' = [pc EXCEPT ![p] = "idle"]
              /\ UNCHANGED TARGET_COLUMNS
         [] db = "columns" ->
              /\ TARGET_COLUMNS' =
                    [TARGET_COLUMNS EXCEPT ![p] = generate_target_columns_from_db(t, file)]
              /\ table_selected' = [table_selected EXCEPT ![p] = TRUE]
              /\ pc' = [pc EXCEPT ![p] = "sel_read"]
    /\ UNCHANGED <<file, run, result>>

\* load_historical_variations lines 35-51: the file is read; on any error
\* the handler goes on to create it
LoadHistorical(p) ==
    /\ pc[p] = "sel_read"
    /\ IF Readable(file)
       THEN /\ TARGET_COLUMNS' =
                  [TARGET_COLUMNS EXCEPT
                      ![p] = LoadedVariations(@, GetPartition(file.data, selected_table[p]))]
            /\ pc' = [pc EXCEPT ![p] = "idle"]
       ELSE /\ pc' = [pc EXCEPT ![p] = "sel_open"]
            /\ UNCHANGED TARGET_COLUMNS
    /\ UNCHANGED <<file, selected_table, table_selected, run, result, last, budget>>

\* every writer that has the file open loses its content when another
\* writer dumps: its own dump then lands on that content
Tear(p) == [q \in Sessions |->
              IF q # p /\ pc[q] \in {"sel_dump", "dump"} THEN [run[q] EXCEPT !.torn = TRUE]
              ELSE run[q]]

\* history: the file was created by a loader while these runs were under way
Created(runs) == [q \in Sessions |-> [runs[q] EXCEPT !.loader = TRUE]]

\* history: a session's saved run is followed "in sequence" only while no
\* other session touches the file
Disturb(p) == [q \in Sessions |-> IF q = p THEN last[q] ELSE NoLast]

\* line 63: open(..., "w") truncates the file, or fails (line 65)
CreateOpen(p, ok) ==
    /\ pc[p] = "sel_open"
    /\ IF ok
       THEN /\ file' = Malformed
            /\ pc' = [pc EXCEPT ![p] = "sel_dump"]
            /\ run' = Created([run EXCEPT ![p] = [@ EXCEPT !.torn = FALSE, !.before = file]])
            /\ last' = Disturb(p)
       ELSE /\ pc' = [pc EXCEPT ![p] = "idle"]
            /\ UNCHANGED <<file, run, last>>
    /\ UNCHANGED <<selected_table, table_selected, TARGET_COLUMNS, result, budget>>

\* line 64: json.dump of the empty structure of the current table
CreateDump(p, intact) ==
    /\ pc[p] = "sel_dump"
    /\ intact \/ run[p].torn
    /\ file' = IF intact
               THEN Stored(EmptyStructure(selected_table[p], TARGET_COLUMNS[p]))
               ELSE Malformed
    /\ run' = Created([Tear(p) EXCEPT ![p] = [@ EXCEPT !.torn = FALSE, !.before = Missing]])
    /\ last' = Disturb(p)
    /\ pc' = [pc EXCEPT ![p] = "idle"]
    /\ UNCHANGED <<selected_table, table_selected, TARGET_COLUMNS, result, budget>>

\* ---- identify_sheet_and_columns ---------------------------------------
\* every way the upload and the sheet oracle can turn out, as the run sees
\* it: whether pd.ExcelFile opens the workbook (excel_data["success"]), what
\* identify_target_sheet does, and whether excel_data["dataframes"] holds
\* the sheet it returned
SheetCases ==
    {[opens  |-> wb.opens,
      out    |-> identify_target_sheet(wb, response),
      loaded |-> identify_target_sheet(wb, response).value \in SuppliedSheets(wb)] :
        wb \in Workbooks, response \in SheetResponses}

\* every way one column task can turn out on the table of a sheet
ColumnCases ==
    [s \in Range(SheetNames), t \in AllTargets |->
        {identify_column(SheetColumns(s), t, promptOk, response) :
            promptOk \in BOOLEAN, response \in ColumnResponses(t)}]

\* controller lines 153-192: the early returns, the sheet classification and
\* the lookup of the sheet's table.  hasFile: the session holds the upload
BeginRun(p, hasFile, case) ==
    /\ Idle(p)
    /\ table_selected[p]
    /\ budget[p].runs > 0
    /\ budget' = [budget EXCEPT ![p].runs = @ - 1]
    /\ LET out == IF case.opens /\ hasFile THEN case.out ELSE NotCalled
           r   == [NoRun EXCEPT !.sheetOut = out, !.table = selected_table[p]]
       IN  CASE ~case.opens ->
                  /\ result' = [result EXCEPT ![p] = Failure(ErrNoData)]
                  /\ pc' = [pc EXCEPT ![p] = "done"]
                  /\ run' = [run EXCEPT ![p] = r]
             [] case.opens /\ ~hasFile ->
                  /\ result' = [result EXCEPT ![p] = Failure(ErrNoFile)]
                  /\ pc' = [pc EXCEPT ![p] = "done"]
                  /\ run' = [run EXCEPT ![p] = r]
             [] case.opens /\ hasFile /\ out.kind = "raise" ->
                  /\ result' = [result EXCEPT ![p] = NoResult]
                  /\ pc' = [pc EXCEPT ![p] = "raised"]
                  /\ run' = [run EXCEPT ![p] = r]
             [] case.opens /\ hasFile /\ out.kind = "return" /\ Falsy(out.value) ->
                  /\ result' = [result EXCEPT ![p] = Failure(ErrSheet)]
                  /\ pc' = [pc EXCEPT ![p] = "done"]
                  /\ run' = [run EXCEPT ![p] = r]
             [] case.opens /\ hasFile /\ out.kind = "return" /\ ~Falsy(out.value)
                  /\ ~case.loaded ->
                  /\ result' = [result EXCEPT
                                   ![p] = [Failure(ErrLoad) EXCEPT !.target_sheet = out.value]]
                  /\ pc' = [pc EXCEPT ![p] = "done"]
                  /\ run' = [run EXCEPT ![p] = r]
             [] case.opens /\ hasFile /\ out.kind = "return" /\ ~Falsy(out.value)
                  /\ case.loaded ->
                  /\ result' = [result EXCEPT
                                   ![p] = [NoResult EXCEPT !.target_sheet = out.value]]
                  /\ pc' = [pc EXCEPT ![p] = "load"]
                  /\ run' = [run EXCEPT ![p] = [r EXCEPT !.sheet = out.value]]
    /\ UNCHANGED <<file, selected_table, table_selected, TARGET_COLUMNS, last>>

\* lines 197-210, then ai_utils lines 248-256: the table's partition is read
\* (empty lists when the file cannot be read), completed with the registry's
\* columns, and one task per registry column is submitted
LoadMappings(p) ==
    /\ pc[p] = "load"
    /\ LET loaded == IF Readable(file) THEN GetPartition(file.data, run[p].table)
                     ELSE [c \in Range(Names(TARGET_COLUMNS[p])) |-> <<>>]
       IN  run' = [run EXCEPT ![p] =
                     [@ EXCEPT
                        !.store = file.st,
                        !.historical_mappings = SetDefaults(loaded, TARGET_COLUMNS[p]),
                        !.pending = Range(Names(TARGET_COLUMNS[p])),
                        !.outcome = [c \in Range(Names(TARGET_COLUMNS[p])) |-> NotCalled]]]
    /\ pc' = [pc EXCEPT ![p] = "collect"]
    /\ UNCHANGED <<file, selected_table, table_selected, TARGET_COLUMNS, result, last, budget>>

\* ai_utils lines 243-245 and 259-265: one task ends (in any order) and
\* as_completed hands its future to the collecting loop
TaskDone(p, t, out) ==
    /\ pc[p] = "collect"
    /\ t \in run[p].pending
    /\ out \in ColumnCases[run[p].sheet, t]
    /\ run' = [run EXCEPT ![p] =
                     [@ EXCEPT
                        !.pending = @ \ {t},
                        !.outcome = [@ EXCEPT ![t] = out],
                        !.column_mappings = CollectResult(@, t, out)]]
    /\ UNCHANGED <<file, selected_table, table_selected, TARGET_COLUMNS, pc, result, last,
                   budget>>

\* ai_utils lines 267-273: every future is collected and the executor has
\* shut down; the aliases are updated and the coordinator returns
UpdateAliases(p) ==
    /\ pc[p] = "collect"
    /\ run[p].pending = {}
    /\ run' = [run EXCEPT ![p] =
                 [@ EXCEPT !.historical_mappings =
                     UpdateHistorical(@, run[p].column_mappings, TRUE)]]
    /\ pc' = [pc EXCEPT ![p] = "reread"]
    /\ UNCHANGED <<file, selected_table, table_selected, TARGET_COLUMNS, result, last, budget>>

\* controller lines 223-230: the whole file is read again ({} on any error)
\* and the table's partition is replaced in it
Reread(p) ==
    /\ pc[p] = "reread"
    /\ run' = [run EXCEPT ![p] =
                 [@ EXCEPT !.all_mappings =
                     PutPartition(IF Readable(file) THEN file.data ELSE EmptyDict,
                                  run[p].table, run[p].historical_mappings),
                           !.outcome = EmptyDict,
                           !.sheet = NoneV]]
    /\ pc' = [pc EXCEPT ![p] = "open"]
    /\ UNCHANGED <<file, selected_table, table_selected, TARGET_COLUMNS, result, last, budget>>

\* a plausible slip: a save that failed takes the mapping back
SuccessIfSaved(p, warnings) ==
    [result[p] EXCEPT !.column_mappings = IF warnings = {} THEN run[p].column_mappings
                                            ELSE <<>>,
                      !.success = (warnings = {}),
                      !.warnings = warnings]

\* what identify_sheet_and_columns returns at lines 238-240
Success(p, warnings) ==
    [result[p] EXCEPT !.column_mappings = run[p].column_mappings,
                      !.success = TRUE,
                      !.warnings = warnings]

\* line 233: open(..., "w") truncates the file; when it fails the warning of
\* line 236 is given and the run returns its mapping
OpenWrite(p, ok) ==
    /\ pc[p] = "open"
    /\ IF ok
       THEN /\ file' = Malformed
            /\ pc' = [pc EXCEPT ![p] = "dump"]
            /\ run' = [run EXCEPT ![p] = [@ EXCEPT !.torn = FALSE, !.before = file]]
            /\ last' = Disturb(p)
            /\ UNCHANGED result
       ELSE /\ result' = [result EXCEPT ![p] = Success(p, {WarnSave})]
            /\ pc' = [pc EXCEPT ![p] = "done"]
            /\ UNCHANGED <<file, run, last>>
    /\ UNCHANGED <<selected_table, table_selected, TARGET_COLUMNS, budget>>

\* history: the run just saved, and whether it repeats the session's
\* previous saved run (same table, same mapping, nothing in between)
Saved(p) ==
    [valid   |-> TRUE,
     table   |-> run[p].table,
     mapping |-> Items(run[p].column_mappings),
     saved   |-> run[p].all_mappings[run[p].table],
     repeat  |-> /\ last[p].valid
                 /\ last[p].table = run[p].table
                 /\ last[p].mapping = Items(run[p].column_mappings),
     before  |-> last[p].saved]

\* lines 234-240: json.dump(all_mappings); the run returns its mapping
Dump(p, intact) ==
    /\ pc[p] = "dump"
    /\ intact \/ run[p].torn
    /\ file' = IF intact THEN Stored(run[p].all_mappings) ELSE Malformed
    /\ run' = [Tear(p) EXCEPT ![p] = [@ EXCEPT !.torn = FALSE, !.written = intact,
                                             !.all_mappings = EmptyDict,
                                             !.before = Missing]]
    /\ last' = [Disturb(p) EXCEPT ![p] = IF intact THEN Saved(p) ELSE NoLast]
    /\ result' = [result EXCEPT ![p] = Success(p, {})]
    /\ pc' = [pc EXCEPT ![p] = "done"]
    /\ UNCHANGED <<selected_table, table_selected, TARGET_COLUMNS, budget>>

(***************************************************************************)
(* SpecDb: DatabaseUtils.save_to_database against the destination table.   *)
(* The connection is the one pyodbc.connect returns: statements run in a   *)
(* transaction that commit makes visible and rollback or close discards.   *)
(***************************************************************************)
\* rows of the formatted table handed to one call
MaxDbRows == 2

\* SQL NULL, for a destination column no formatted column matches
Null == "NULL"

\* the destination table's columns as INFORMATION_SCHEMA lists them
DestColumns == <<"Account_ID", "Balance">>

\* the column labels a formatted table may carry
DfColumnChoices ==
    { <<"account_id", "BALANCE">>,
      <<"balance", "Balance">>,
      <<"Balance", "notes">>,
      <<"notes">>,
      <<>> }

\* str.lower() on the names in use
Lower(name) ==
    CASE name \in {"Account_ID", "account_id"} -> "account_id"
      [] name \in {"Balance", "BALANCE", "balance"} -> "balance"
      [] OTHER -> name

\* a plausible slip: the names are compared as they are written
SameNameExact(df_col, db_col) == df_col = db_col

\* line 70: df_col.lower() == db_col.lower()
SameName(df_col, db_col) == Lower(df_col) = Lower(db_col)

\* lines 69-72: the first formatted column that matches, 0 when none does
FirstMatch(df_cols, db_col) ==
    IF \E j \in DOMAIN df_cols : SameName(df_cols[j], db_col)
    THEN CHOOSE j \in DOMAIN df_cols :
            /\ SameName(df_cols[j], db_col)
            /\ \A k \in 1..(j - 1) : ~SameName(df_cols[k], db_col)
    ELSE 0

RECURSIVE MatchColumns(_, _, _)
\* lines 66-72: the (df_col, db_col) pairs, in the order of the database columns
MatchColumns(db_column_names, df_cols, i) ==
    IF i > Len(db_column_names) THEN <<>>
    ELSE LET j == FirstMatch(df_cols, db_column_names[i])
         IN  (IF j = 0 THEN <<>>
              ELSE <<[df_col |-> df_cols[j], db_col |-> db_column_names[i]]>>)
             \o MatchColumns(db_column_names, df_cols, i + 1)

\* a plausible slip: the write goes on with no matched column
RejectedNever(matched_cols) == FALSE

\* line 74: if not matched_cols
Rejected(matched_cols) == matched_cols = <<>>

\* lines 83-91: the row INSERT stores, the matched columns filled from the
\* formatted row
InsertedRow(row, matched_cols) ==
    [c \in Range(DestColumns) |->
        IF \E m \in DOMAIN matched_cols : matched_cols[m].db_col = c
        THEN row[matched_cols[CHOOSE m \in DOMAIN matched_cols : matched_cols[m].db_col = c].df_col]
        ELSE Null]

\* a plausible slip: the connection is opened with autocommit on
AutocommitOn == TRUE

\* line 35: pyodbc.connect(conn_str) opens the connection with autocommit off
Autocommit == FALSE

\* the formatted tables: labels, and one record per row
DbFrames ==
    UNION {{[columns |-> cols, rows |-> rows] :
                rows \in SeqsUpTo([Range(cols) -> CellValues], MaxDbRows)} :
           cols \in DfColumnChoices}

\* what the destination table may hold before the call
OldRows == {<<>>, <<[c \in Range(DestColumns) |-> "x"]>>}

MsgNoConnection == "Could not establish database connection"

MsgNoMatch == "No matching columns found between processed data and database table"

MsgSaved == "Successfully saved records"

MsgError == "Error saving to database"

NoReturn == [success |-> FALSE, message |-> NoneV, records |-> 0]

\* a call: the formatted table df; listed: what the SELECT on
\* INFORMATION_SCHEMA returns; old: the table at the call; table: the
\* committed rows; work: the rows as the open transaction sees them;
\* deleted / inserted: the DELETE and INSERT statements executed
DbCalls ==
    {[pc |-> "connect", df |-> df, listed |-> listed, old |-> old, table |-> old,
      work |-> old, matched_cols |-> <<>>, i |-> 1, deleted |-> FALSE, inserted |-> 0,
      result |-> NoReturn] :
        df \in DbFrames, listed \in {DestColumns, <<>>}, old \in OldRows}

DbInit == conn \in DbCalls

DbIdle ==
    conn = [pc |-> "off", df |-> [columns |-> <<>>, rows |-> <<>>], listed |-> <<>>,
          old |-> <<>>, table |-> <<>>, work |-> <<>>, matched_cols |-> <<>>, i |-> 1,
          deleted |-> FALSE, inserted |-> 0, result |-> NoReturn]

\* lines 96-101: rollback, the error is returned, the connection is closed
DbFail ==
    [conn EXCEPT !.pc = "done", !.work = conn.table,
               !.result = [success |-> FALSE, message |-> MsgError, records |-> 0]]

\* cursor.execute of a statement that changes rows: with autocommit the
\* change is committed at once
DbExecute(d, rows) ==
    IF Autocommit THEN [d EXCEPT !.work = rows, !.table = rows]
    ELSE [d EXCEPT !.work = rows]

dbOther == <<apVars, coVars, shVars, mnVars, wait, page, grid, batch>>

\* lines 52-54
DbConnect ==
    /\ UNCHANGED dbOther
    /\ conn.pc = "connect"
    /\ \E ok \in BOOLEAN :
          conn' = IF ok THEN [conn EXCEPT !.pc = "columns"]
                ELSE [conn EXCEPT !.pc = "done",
                         !.result = [success |-> FALSE, message |-> MsgNoConnection,
                                     records |-> 0]]

\* lines 60-75: the columns are read and matched; with no match the call
\* returns (finally: the connection is closed)
DbReadColumns ==
    /\ UNCHANGED dbOther
    /\ conn.pc = "columns"
    /\ \E ok \in BOOLEAN :
          conn' = IF ~ok THEN DbFail
                ELSE LET matched_cols == MatchColumns(conn.listed, conn.df.columns, 1)
                     IN  IF Rejected(matched_cols)
                         THEN [conn EXCEPT !.pc = "done",
                                  !.result = [success |-> FALSE, message |-> MsgNoMatch,
                                              records |-> 0]]
                         ELSE [conn EXCEPT !.pc = "delete", !.matched_cols = matched_cols]

\* line 78: DELETE FROM the table
DbDelete ==
    /\ UNCHANGED dbOther
    /\ conn.pc = "delete"
    /\ \E ok \in BOOLEAN :
          conn' = IF ~ok THEN DbFail
                ELSE [DbExecute(conn, <<>>) EXCEPT !.pc = "insert", !.deleted = TRUE]

\* lines 81-91: one INSERT per row of df (an INSERT with no column fails)
DbInsert ==
    /\ UNCHANGED dbOther
    /\ conn.pc = "insert"
    /\ conn.i <= Len(conn.df.rows)
    /\ \E ok \in BOOLEAN :
          conn' = IF ~ok \/ conn.matched_cols = <<>> THEN [DbFail EXCEPT !.inserted = @ + 1]
                ELSE [DbExecute(conn, Append(conn.work, InsertedRow(conn.df.rows[conn.i], conn.matched_cols)))
                         EXCEPT !.i = @ + 1, !.inserted = @ + 1]

\* lines 93-94: commit
DbCommit ==
    /\ UNCHANGED dbOther
    /\ conn.pc = "insert"
    /\ conn.i > Len(conn.df.rows)
    /\ \E ok \in BOOLEAN :
          conn' = IF ~ok THEN DbFail
                ELSE [conn EXCEPT !.pc = "done", !.table = conn.work,
                         !.result = [success |-> TRUE, message |-> MsgSaved,
                                     records |-> Len(conn.df.rows)]]

DbNext ==
    \/ DbConnect
    \/ DbReadColumns
    \/ DbDelete
    \/ DbInsert
    \/ DbCommit

(***************************************************************************)
(* SpecWait: the blocking oracle calls of one run, identify_target_sheet   *)
(* and then one identify_column per target column in the executor's        *)
(* threads.  The oracle answers a call, fails it, or never responds.       *)
(***************************************************************************)
\* what the oracle does with a call
Fates == {"answers", "fails", "never"}

WtTargets == Range(DEFAULT_TARGET_COLUMNS)

NoCall == [st |-> "none", fate |-> NoneV]

wtOther == <<apVars, coVars, shVars, mnVars, conn, page, grid, batch>>

WtInit ==
    wait = [stage |-> "sheet", sheet |-> NoCall, task |-> [t \in WtTargets |-> NoCall],
            collected |-> {}]

WtIdle ==
    wait = [stage |-> "off", sheet |-> NoCall, task |-> [t \in WtTargets |-> NoCall],
            collected |-> {}]

\* ai_utils lines 105-115: client.chat.completions.create(...) is entered
WtSheetCall ==
    /\ UNCHANGED wtOther
    /\ wait.stage = "sheet" /\ wait.sheet.st = "none"
    /\ \E f \in Fates : wait' = [wait EXCEPT !.sheet = [st |-> "calling", fate |-> f]]

\* lines 117-136: the call returned or raised; with a sheet the run goes on
\* to the columns (controller lines 182-218), otherwise it returns
WtSheetEnd ==
    /\ UNCHANGED wtOther
    /\ wait.stage = "sheet" /\ wait.sheet.st = "calling"
    /\ wait.sheet.fate # "never"
    /\ wait' = [wait EXCEPT !.sheet.st = "ended",
                            !.stage = IF wait.sheet.fate = "answers" THEN "submit"
                                      ELSE "returned"]

\* lines 251-256: one task per target column is submitted
WtSubmit ==
    /\ UNCHANGED wtOther
    /\ wait.stage = "submit"
    /\ wait' = [wait EXCEPT !.stage = "collect",
                            !.task = [t \in WtTargets |-> [st |-> "submitted", fate |-> NoneV]]]

\* lines 243-244 and 197-207: a worker thread enters the call of its column
WtTaskCall(t) ==
    /\ UNCHANGED wtOther
    /\ wait.stage = "collect" /\ wait.task[t].st = "submitted"
    /\ \E f \in Fates : wait' = [wait EXCEPT !.task[t] = [st |-> "calling", fate |-> f]]

\* lines 209-225: the call returned or raised and the task ends
WtTaskEnd(t) ==
    /\ UNCHANGED wtOther
    /\ wait.stage = "collect" /\ wait.task[t].st = "calling"
    /\ wait.task[t].fate # "never"
    /\ wait' = [wait EXCEPT !.task[t].st = "ended"]

\* lines 259-265: as_completed hands over a future that is done
WtCollect(t) ==
    /\ UNCHANGED wtOther
    /\ wait.stage = "collect" /\ wait.task[t].st = "ended" /\ t \notin wait.collected
    /\ wait' = [wait EXCEPT !.collected = @ \cup {t}]

\* lines 266-273: every future was handed over, the executor has shut down
\* and the coordinator returns
WtReturn ==
    /\ UNCHANGED wtOther
    /\ wait.stage = "collect" /\ wait.collected = WtTargets
    /\ wait' = [wait EXCEPT !.stage = "returned"]

WtTaskCalls == \E t \in WtTargets : WtTaskCall(t)

WtTaskEnds == \E t \in WtTargets : WtTaskEnd(t)

WtCollects == \E t \in WtTargets : WtCollect(t)

WtNext ==
    \/ WtSheetCall
    \/ WtSheetEnd
    \/ WtSubmit
    \/ WtTaskCalls
    \/ WtTaskEnds
    \/ WtCollects
    \/ WtReturn

(***************************************************************************)
(* SpecPage: the page of app.main.  Streamlit runs main() from the top for *)
(* the upload and again for every change of a widget; main() keeps nothing *)
(* of a run but the values of its keyed widgets.                           *)
(***************************************************************************)
\* changes of a mapping selectbox the user makes
MaxOverrides == 2

PgTargets == Range(Names(DefaultRegistry))

\* list(df.columns) of the sheet shown
PgColumns == Range(SheetColumns("Sheet1"))

\* the first option of every mapping selectbox (line 717)
NoneOption == "None"

pgOther == <<apVars, coVars, shVars, mnVars, conn, wait, grid, batch>>

\* shown: the mapping selectboxes were drawn in the latest run; sheetCalls,
\* colCalls: oracle calls made so far; auto: auto_column_mappings of the
\* latest run as the default option of each selectbox; widget: the value of
\* each selectbox; target: the selectbox the user changed last
PgStart ==
    [shown |-> FALSE, sheetCalls |-> 0, colCalls |-> [t \in PgTargets |-> 0],
     auto |-> [t \in PgTargets |-> NoneOption],
     widget |-> [t \in PgTargets |-> NoneOption],
     overrides |-> 0, target |-> NoneV]

PgInit == page = [PgStart EXCEPT !.shown = FALSE]

PgIdle == page = [PgStart EXCEPT !.target = "off"]

\* lines 726-731: the default option is the oracle's column when it is one
\* of the sheet's
DefaultOption(guessed_column) ==
    IF guessed_column \in PgColumns THEN guessed_column ELSE NoneOption

\* lines 653-742, one run of the script with the widget values w: the sheet
\* is classified (line 660); with a sheet every target column is classified
\* (lines 698-700) and the selectboxes are drawn, each keeping its value
\* or, when its default option changed, possibly taking the new default
ScriptRun(pg, w, sheetOk, answers, keep) ==
    IF ~sheetOk
    THEN [pg EXCEPT !.shown = FALSE, !.sheetCalls = @ + 1,
                    !.widget = [t \in PgTargets |-> NoneOption],
                    !.auto = [t \in PgTargets |-> NoneOption]]
    ELSE LET auto == [t \in PgTargets |-> DefaultOption(answers[t])]
         IN  [pg EXCEPT !.shown = TRUE,
                        !.sheetCalls = @ + 1,
                        !.colCalls = [t \in PgTargets |-> @[t] + 1],
                        !.auto = auto,
                        !.widget = [t \in PgTargets |->
                                      IF pg.shown /\ (auto[t] = pg.auto[t] \/ keep[t])
                                      THEN w[t] ELSE auto[t]]]

\* the file is uploaded: the first run
PgUpload ==
    /\ UNCHANGED pgOther
    /\ page.sheetCalls = 0
    /\ \E sheetOk \in BOOLEAN, answers \in [PgTargets -> PgColumns \cup {NoneV}],
          keep \in [PgTargets -> BOOLEAN] :
          page' = ScriptRun(page, page.widget, sheetOk, answers, keep)

\* the user picks another option in the selectbox of target t (line 733)
\* and Streamlit runs the script again
PgOverride ==
    /\ UNCHANGED pgOther
    /\ page.shown
    /\ page.overrides < MaxOverrides
    /\ \E t \in PgTargets :
       \E v \in (PgColumns \cup {NoneOption}) \ {page.widget[t]},
          sheetOk \in BOOLEAN, answers \in [PgTargets -> PgColumns \cup {NoneV}],
          keep \in [PgTargets -> BOOLEAN] :
          page' = [ScriptRun(page, [page.widget EXCEPT ![t] = v], sheetOk, answers, keep)
                      EXCEPT !.overrides = @ + 1, !.target = t]

PgNext ==
    \/ PgUpload
    \/ PgOverride

(***************************************************************************)
(* SpecRows: deletion of rows by index from the formatted table.  The      *)
(* operation is specified (spec.md section 4.5) and has no code under src; *)
(* delete_rows is written from its specification.                          *)
(***************************************************************************)
\* rows of the formatted table before any deletion
MaxTableRows == 3

\* deletions applied to one table
MaxDeletes == 2

\* row labels a deletion may name; the largest one is in no table
RowLabels == 0..MaxTableRows

RowSets == SUBSET RowLabels

\* the formatted table as MappingApplier leaves it: the source's row labels
RowTables ==
    UNION {{[columns |-> <<"account_id">>, index |-> RangeIndex(n),
             data |-> [c \in {"account_id"} |-> d]] : d \in [1..n -> CellValues]} :
           n \in 0..MaxTableRows}

RECURSIVE KeptPositions(_, _, _)
\* the positions, in order, of the rows that stay
KeptPositions(index, gone, i) ==
    IF i > Len(index) THEN <<>>
    ELSE (IF gone[i] THEN <<>> ELSE <<i>>) \o KeptPositions(index, gone, i + 1)

\* the table of the rows at the given positions, labels kept
TakeRows(table, kept) ==
    [columns |-> table.columns,
     index |-> [k \in DOMAIN kept |-> table.index[kept[k]]],
     data |-> [c \in DOMAIN table.data |->
                 [k \in DOMAIN kept |-> table.data[c][kept[k]]]]]

\* rows taken by position rather than by label
delete_rows_by_position(table, row_indices) ==
    TakeRows(table, KeptPositions(table.index,
                 [i \in DOMAIN table.index |-> (i - 1) \in row_indices], 1))

\* delete_rows(table, row_indices): the rows whose label is in row_indices
\* go, a label the table does not have is ignored
delete_rows(table, row_indices) ==
    TakeRows(table, KeptPositions(table.index,
                 [i \in DOMAIN table.index |-> table.index[i] \in row_indices], 1))

NoDeletion == [before |-> NoneV, row_indices |-> {}, again |-> NoneV]

rwOther == <<apVars, coVars, shVars, mnVars, conn, wait, page, batch>>

RwInit == \E t \in RowTables : grid = [on |-> TRUE, table |-> t, deletes |-> 0, last |-> NoDeletion]

RwIdle == grid = [on |-> FALSE, table |-> NoneV, deletes |-> 0, last |-> NoDeletion]

\* one deletion; last keeps the table before it, the set given and what
\* the same deletion gives when applied to the result
RwDelete ==
    /\ UNCHANGED rwOther
    /\ grid.on
    /\ grid.deletes < MaxDeletes
    /\ \E row_indices \in RowSets :
          LET after == delete_rows(grid.table, row_indices)
          IN  grid' = [on |-> TRUE, table |-> after, deletes |-> grid.deletes + 1,
                       last |-> [before |-> grid.table, row_indices |-> row_indices,
                                 again |-> delete_rows(after, row_indices)]]

RwNext ==
    \/ RwDelete

(***************************************************************************)
(* SpecBatch: one call of ai_utils.identify_columns_with_threads, task by  *)
(* task.  The pool's threads start and end the tasks in any order; the     *)
(* calling thread collects the finished futures, leaves the pool when all  *)
(* are done, and then updates the partition it was given.                  *)
(***************************************************************************)
\* target columns of one call
MaxBatchTargets == 2

BtNames == SubSeq(DEFAULT_TARGET_COLUMNS, 1, MaxBatchTargets)

\* the sheet whose table is classified
BtSheet == "Sheet1"

\* the alias lists a registry column or a partition entry may hold
BtLists == {<<>>, <<"Acct No">>, <<"Bal", "Acct No">>}

\* target_columns: the first column with any of the lists
BtRegistries ==
    {[i \in DOMAIN BtNames |->
        [name |-> BtNames[i],
         historical_variations |-> IF i = 1 THEN l ELSE <<>>]] : l \in BtLists}

\* historical_mappings: None (given is false), {}, a partition that lacks
\* the entries of all target columns but the first, or a whole partition
BtPartitions ==
    {[given |-> FALSE, d |-> EmptyDict], [given |-> TRUE, d |-> EmptyDict]}
    \cup {[given |-> TRUE, d |-> [c \in {BtNames[1]} |-> l]] : l \in BtLists}
    \cup {[given |-> TRUE, d |-> [c \in Range(BtNames) |-> IF c = BtNames[1] THEN l ELSE <<>>]] :
             l \in BtLists}

\* Python truthiness of historical_mappings: None and {} are falsy
Truthy(given, historical_mappings) == given /\ DOMAIN historical_mappings # {}

RECURSIVE CombineAll(_, _, _)
\* a plausible slip: the membership test of line 161 is left out
CombineAll(all_variations, more, i) ==
    IF i > Len(more) THEN all_variations
    ELSE CombineAll(Append(all_variations, more[i]), more, i + 1)

RECURSIVE Combine(_, _, _)
\* ai_utils lines 160-162
Combine(all_variations, more, i) ==
    IF i > Len(more) THEN all_variations
    ELSE Combine(IF more[i] \in Range(all_variations) THEN all_variations
                 ELSE Append(all_variations, more[i]),
                 more, i + 1)

\* ai_utils lines 158-162: the list put into the prompt (line 192)
AllVariations(target_column, given, historical_mappings) ==
    IF Truthy(given, historical_mappings) /\ target_column.name \in DOMAIN historical_mappings
    THEN Combine(target_column.historical_variations,
                 historical_mappings[target_column.name], 1)
    ELSE target_column.historical_variations

\* a plausible slip: line 158 without .copy(), the appends of line 162 then
\* go to the column's own list
OwnListShared(historical_variations, all_variations) == all_variations

\* target_column.historical_variations after lines 158-162: all_variations
\* is a copy and takes the appends
OwnListAfter(historical_variations, all_variations) == historical_variations

\* ai_utils lines 270-271
AppendOne(historical_mappings, column_name, guessed_column) ==
    IF guessed_column \in Range(historical_mappings[column_name])
    THEN historical_mappings
    ELSE [historical_mappings EXCEPT ![column_name] = Append(@, guessed_column)]

\* a plausible slip: the calling thread goes on at the first finished future
DrainedFirst(b) == b.collected # {}

\* ai_utils lines 251-265: as_completed has handed over every future and
\* the executor has shut down, which waits for every task
Drained(b) ==
    \A t \in DOMAIN b.task : b.task[t].st = "done" /\ t \in b.collected

btOther == <<apVars, coVars, shVars, mnVars, conn, wait, page, grid>>

BtQueued == [st |-> "queued", sent |-> <<>>, out |-> NotCalled]

\* start: the partition as it was passed in; i: the item the loop of line
\* 269 is at
BtStates(on) ==
    [on : {on}, stage : {"collect"}, target_columns : BtRegistries,
     given : BOOLEAN, historical_mappings : {pt.d : pt \in BtPartitions},
     start : {pt.d : pt \in BtPartitions}, update_historical : BOOLEAN,
     task : {[t \in Range(BtNames) |-> BtQueued]}, collected : {{}},
     column_mappings : {<<>>}, i : {1}]

BtInit ==
    /\ batch \in BtStates(TRUE)
    /\ batch.historical_mappings = batch.start
    /\ [given |-> batch.given, d |-> batch.start] \in BtPartitions

BtIdle ==
    /\ batch \in BtStates(FALSE)
    /\ batch.target_columns = [i \in DOMAIN BtNames |-> Column(BtNames[i])]
    /\ ~batch.given /\ ~batch.update_historical
    /\ batch.historical_mappings = EmptyDict /\ batch.start = EmptyDict

BtColumn(b, t) == b.target_columns[CHOOSE i \in DOMAIN b.target_columns :
                                      b.target_columns[i].name = t]

\* identify_column lines 152-162 in a thread of the pool: the combined list
BtStart(t) ==
    /\ UNCHANGED btOther
    /\ batch.on
    /\ batch.task[t].st = "queued"
    /\ LET all_variations == AllVariations(BtColumn(batch, t), batch.given,
                                           batch.historical_mappings)
       IN  batch' = [batch EXCEPT
                       !.task[t] = [@ EXCEPT !.st = "running", !.sent = all_variations],
                       !.target_columns =
                           [i \in DOMAIN @ |->
                               IF @[i].name = t
                               THEN [@[i] EXCEPT !.historical_variations =
                                        OwnListAfter(@, all_variations)]
                               ELSE @[i]]]

\* identify_column lines 164-225: the task ends
BtEnd(t) ==
    /\ UNCHANGED btOther
    /\ batch.on
    /\ batch.task[t].st = "running"
    /\ \E out \in ColumnCases[BtSheet, t] :
          batch' = [batch EXCEPT !.task[t] = [@ EXCEPT !.st = "done", !.out = out]]

\* lines 259-265: as_completed hands over a finished future
BtCollect(t) ==
    /\ UNCHANGED btOther
    /\ batch.on
    /\ batch.stage = "collect"
    /\ batch.task[t].st = "done"
    /\ t \notin batch.collected
    /\ batch' = [batch EXCEPT
                    !.collected = @ \cup {t},
                    !.column_mappings = CollectResult(@, t, batch.task[t].out)]

\* the with block is left; line 268
BtExit ==
    /\ UNCHANGED btOther
    /\ batch.on
    /\ batch.stage = "collect"
    /\ Drained(batch)
    /\ batch' = [batch EXCEPT
                    !.stage = IF batch.update_historical
                                 /\ Truthy(batch.given, batch.historical_mappings)
                              THEN "update" ELSE "returned"]

\* lines 269-271, one item: a column the partition has no entry for raises
\* KeyError out of the call
BtAppend ==
    /\ UNCHANGED btOther
    /\ batch.on
    /\ batch.stage = "update"
    /\ batch.i <= Len(batch.column_mappings)
    /\ LET column_name == batch.column_mappings[batch.i].k
           guessed_column == batch.column_mappings[batch.i].v
       IN  IF column_name \in DOMAIN batch.historical_mappings
           THEN batch' = [batch EXCEPT
                            !.historical_mappings = AppendOne(@, column_name, guessed_column),
                            !.i = @ + 1]
           ELSE batch' = [batch EXCEPT !.stage = "raised"]

\* line 273
BtReturn ==
    /\ UNCHANGED btOther
    /\ batch.on
    /\ batch.stage = "update"
    /\ batch.i > Len(batch.column_mappings)
    /\ batch' = [batch EXCEPT !.stage = "returned"]

BtStarts == \E t \in Range(BtNames) : BtStart(t)

BtEnds == \E t \in Range(BtNames) : BtEnd(t)

BtCollects == \E t \in Range(BtNames) : BtCollect(t)

BtNext ==
    \/ BtStarts
    \/ BtEnds
    \/ BtCollects
    \/ BtExit
    \/ BtAppend
    \/ BtReturn

XIdle == DbIdle /\ WtIdle /\ PgIdle /\ RwIdle /\ BtIdle

pureVars == <<apVars, coVars, shVars, xVars>>

\* the sessions are interchangeable: the one that selects a table first is
\* called session 1
InOrder(p) == \A q \in Sessions : q < p => selected_table[q] # NoneV

Select == \E p \in Sessions, t \in Tables, db \in {"raises", "empty", "columns"} :
             InOrder(p) /\ SelectTable(p, t, db) /\ UNCHANGED pureVars

Load == \E p \in Sessions : LoadHistorical(p) /\ UNCHANGED pureVars

Create == \E p \in Sessions, ok \in BOOLEAN : CreateOpen(p, ok) /\ UNCHANGED pureVars

CreateWrite == \E p \in Sessions, intact \in BOOLEAN : CreateDump(p, intact) /\ UNCHANGED pureVars

Begin == \E p \in Sessions, hasFile \in BOOLEAN, case \in SheetCases :
             BeginRun(p, hasFile, case) /\ UNCHANGED pureVars

Dispatch == \E p \in Sessions : LoadMappings(p) /\ UNCHANGED pureVars

Collect == \E p \in Sessions, t \in AllTargets :
              \E out \in {Raised} \cup {Returned(v) : v \in AllSourceColumns \cup {NoneV}} :
                 TaskDone(p, t, out) /\ UNCHANGED pureVars

Update == \E p \in Sessions : UpdateAliases(p) /\ UNCHANGED pureVars

ReadAgain == \E p \in Sessions : Reread(p) /\ UNCHANGED pureVars

Open == \E p \in Sessions, ok \in BOOLEAN : OpenWrite(p, ok) /\ UNCHANGED pureVars

Write == \E p \in Sessions, intact \in BOOLEAN : Dump(p, intact) /\ UNCHANGED pureVars

MnNext ==
    \/ Select
    \/ Load
    \/ Create
    \/ CreateWrite
    \/ Begin
    \/ Dispatch
    \/ Collect
    \/ Update
    \/ ReadAgain
    \/ Open
    \/ Write

vars == <<apVars, coVars, shVars, mnVars, xVars>>

Init == MnInit /\ ApIdle /\ CoIdle /\ ShIdle /\ XIdle

Next == MnNext

Spec == Init /\ [][Next]_vars

InitOverlap == MnInitOverlap /\ ApIdle /\ CoIdle /\ ShIdle /\ XIdle

SpecOverlap == InitOverlap /\ [][Next]_vars

InitApply == ApInit /\ CoIdle /\ ShIdle /\ MnIdle /\ XIdle

SpecApply == InitApply /\ [][ApNext]_vars

InitColumn == CoInit /\ ApIdle /\ ShIdle /\ MnIdle /\ XIdle

SpecColumn == InitColumn /\ [][CoNext]_vars

InitSheet == ShInit /\ ApIdle /\ CoIdle /\ MnIdle /\ XIdle

SpecSheet == InitSheet /\ [][ShNext]_vars

InitDb == DbInit /\ ApIdle /\ CoIdle /\ ShIdle /\ MnIdle /\ WtIdle /\ PgIdle /\ RwIdle /\ BtIdle

SpecDb == InitDb /\ [][DbNext]_vars

InitWait == WtInit /\ ApIdle /\ CoIdle /\ ShIdle /\ MnIdle /\ DbIdle /\ PgIdle /\ RwIdle /\ BtIdle

SpecWait == InitWait /\ [][WtNext]_vars

InitPage == PgInit /\ ApIdle /\ CoIdle /\ ShIdle /\ MnIdle /\ DbIdle /\ WtIdle /\ RwIdle /\ BtIdle

SpecPage == InitPage /\ [][PgNext]_vars

InitRows == RwInit /\ ApIdle /\ CoIdle /\ ShIdle /\ MnIdle /\ DbIdle /\ WtIdle /\ PgIdle /\ BtIdle

SpecRows == InitRows /\ [][RwNext]_vars

InitBatch ==
    BtInit /\ ApIdle /\ CoIdle /\ ShIdle /\ MnIdle /\ DbIdle /\ WtIdle /\ PgIdle /\ RwIdle

SpecBatch == InitBatch /\ [][BtNext]_vars

(***************************************************************************)
(* Claims about apply_column_mappings (SpecApply)                          *)
(***************************************************************************)
\* the targets of a mapping whose source column the table has
Projected(df, m) == {t \in DictKeys(m) : DictValue(m, t) \in Range(df.columns)}

\* C2: the returned table's column order is the registry's declared order
\* restricted to the mapped targets, whatever the mapping's insertion order.
C2_OrderPreservation ==
    ap_pc = "done" =>
        ap_result.columns =
            SelectSeq(DEFAULT_TARGET_COLUMNS,
                      LAMBDA t : t \in Projected(ap_df, ap_mappings))

\* C5: the output has a column t exactly for the mapped targets whose source
\* column exists, and column t holds the values of source column mapping[t]
\* row for row.
C5_ResultContent ==
    ap_pc = "done" =>
        /\ NoDup(ap_result.columns)
        /\ Range(ap_result.columns) = Projected(ap_df, ap_mappings)
        /\ DOMAIN ap_result.data = Projected(ap_df, ap_mappings)
        /\ \A t \in Projected(ap_df, ap_mappings) :
              ap_result.data[t] = ap_df.data[DictValue(ap_mappings, t)]

\* two targets copy the same source column of a table with rows, a third is
\* mapped to a column the table lacks
C5_Witness ==
    /\ ap_pc = "done"
    /\ Len(ap_df.index) = MaxRows
    /\ \E t1, t2 \in Projected(ap_df, ap_mappings) :
          /\ t1 # t2
          /\ DictValue(ap_mappings, t1) = DictValue(ap_mappings, t2)
          /\ ap_result.data[t1] = ap_df.data[DictValue(ap_mappings, t1)]
          /\ \E c \in Range(ap_df.columns) : ap_df.data[c] # ap_result.data[t1]
    /\ DictKeys(ap_mappings) \ Projected(ap_df, ap_mappings) # {}

\* C6: the returned table has the row labels (and so the row count) of the
\* source table, for every mapping.
C6_RowsPreserved ==
    ap_pc = "done" => ap_result.index = ap_df.index

(***************************************************************************)
(* Claims about identify_column (SpecColumn)                               *)
(***************************************************************************)
\* the value the response proposes for the target, None when it has none
Proposed(in) ==
    IF in.response.kind = "object" THEN JsonGet(in.response.obj, in.target) ELSE NoneV

C7_SheetMembership ==
    sh_pc = "done" =>
        /\ sh_out.value # NoneV => sh_out.value \in SuppliedSheets(sh_in.wb)
        /\ (sh_in.response.kind = "object"
              /\ JsonGet(sh_in.response.obj, "target_sheet") \notin SuppliedSheets(sh_in.wb))
           => sh_out.value = NoneV

\* C9: identify_target_sheet returns a sheet name or None for every outcome
\* of reading the workbook, building the prompt and calling the oracle; no
\* exception escapes.
C9_SheetNeverRaises ==
    sh_pc = "done" => sh_out.kind = "return"

(***************************************************************************)
(* Claims about the identification run (Spec, SpecOverlap)                 *)
(***************************************************************************)
\* C1: a run that follows a saved run of the same session in sequence, for
\* the same table and with the same oracle answers (so the same mapping),
\* leaves every persisted alias list as the first run left it.
C1_AliasIdempotence ==
    \A p \in Sessions :
        last[p].repeat =>
            \A c \in DOMAIN last[p].saved \cup DOMAIN last[p].before :
                GetAliases(last[p].saved, c) = GetAliases(last[p].before, c)

\* the first run appended an alias behind an older one, the second run got
\* the same answer and saved
C1_Witness ==
    \E p \in Sessions :
        /\ last[p].repeat
        /\ \E item \in last[p].mapping :
              /\ Len(last[p].before[item[1]]) = 2
              /\ last[p].before[item[1]][2] = item[2]
              /\ file = Stored(file.data)
              /\ file.data[last[p].table][item[1]] = last[p].before[item[1]]

\* the tasks of a run whose classification gave a column
Succeeded(r) ==
    {t \in DOMAIN r.outcome : r.outcome[t].kind = "return" /\ ~Falsy(r.outcome[t].value)}

\* the tasks of a run whose classification gave None or raised
Failed(r) ==
    {t \in DOMAIN r.outcome : r.outcome[t] # NotCalled} \ Succeeded(r)

\* C4: the mapping holds exactly the entries of the columns whose
\* classification succeeded, each with the column its classification
\* returned: a failing column (None or an exception of its task) neither
\* enters nor removes an entry, so with exactly one of N failing the
\* coordinator returns N-1 entries.
C4_FanOutFaultTolerance ==
    \A p \in Sessions :
        pc[p] \in {"collect", "reread"} =>
            /\ DictKeys(run[p].column_mappings) = Succeeded(run[p])
            /\ Len(run[p].column_mappings) = Cardinality(Succeeded(run[p]))
            /\ \A t \in Succeeded(run[p]) :
                  DictValue(run[p].column_mappings, t) = run[p].outcome[t].value
            /\ (pc[p] = "reread" /\ Cardinality(Failed(run[p])) = 1) =>
                  Len(run[p].column_mappings) = Cardinality(DOMAIN run[p].outcome) - 1

\* the coordinator has returned for two target columns: one task proposed no
\* source column and was dropped, the other one's entry is in the mapping
C4_Witness ==
    \E p \in Sessions :
        /\ pc[p] = "reread"
        /\ Cardinality(DOMAIN run[p].outcome) = 2
        /\ \E t \in DOMAIN run[p].outcome : run[p].outcome[t] = Returned(NoneV)
        /\ Len(run[p].column_mappings) = 1

\* a run has finished: its handler returned or let an exception escape
Finished(p) == pc[p] \in {"done", "raised"} /\ run[p].table # NoneV

\* sheet classification was called and gave no sheet
SheetFailed(r) ==
    r.sheetOut.kind = "raise" \/ (r.sheetOut.kind = "return" /\ Falsy(r.sheetOut.value))

\* C10: column classification is dispatched only after sheet classification
\* returned a sheet; when sheet classification fails no column is classified,
\* the alias file is not written and the result has success = false with the
\* sheet error, while a failing column leaves success = true.
C10_SheetBeforeColumns ==
    \A p \in Sessions :
        /\ (pc[p] \in {"load", "collect", "reread", "open", "dump"}
               \/ run[p].column_mappings # <<>> \/ run[p].written) =>
              (run[p].sheetOut.kind = "return" /\ run[p].sheetOut.value \in Range(SheetNames))
        /\ (Finished(p) /\ SheetFailed(run[p])) =>
              /\ run[p].column_mappings = <<>>
              /\ ~run[p].written
              /\ pc[p] = "done"
              /\ result[p].success = FALSE
              /\ result[p].error = ErrSheet
        /\ (pc[p] = "done" /\ result[p].success) =>
              /\ result[p].error = NoneV
              /\ result[p].column_mappings = run[p].column_mappings

\* C3: when two runs for different tables have both saved, in whatever
\* interleaving of their steps, the file holds every alias either of them
\* saved under its table.
C3_PartitionIsolation ==
    \A p, q \in Sessions :
        (/\ p # q
         /\ pc[p] = "done" /\ pc[q] = "done"
         /\ run[p].written /\ run[q].written
         /\ run[p].table # run[q].table
         /\ ~run[p].loader /\ ~run[q].loader) =>
            /\ Readable(file)
            /\ \A c \in DOMAIN run[p].historical_mappings :
                  Range(run[p].historical_mappings[c]) \subseteq
                      Range(GetAliases(GetPartition(file.data, run[p].table), c))

(***************************************************************************)
(* Claims about the alias file (Spec, SpecOverlap)                         *)
(***************************************************************************)
\* session p's json.dump of a run ends and leaves the file whole
SaveStep(p) == pc[p] = "dump" /\ pc'[p] = "done" /\ Readable(file')

\* C11: every save of a run for table T leaves the entry of every other
\* table that was persisted when the save opened the file in the file and
\* exactly as it was.
C11_SavePreservesOthers ==
    [][\A p \in Sessions :
          SaveStep(p) =>
              \A u \in DOMAIN run[p].before.data \ {run[p].table} :
                  /\ u \in DOMAIN file'.data
                  /\ file'.data[u] = run[p].before.data[u]]_vars

\* C12: every save of a run for table T, in whatever interleaving with other
\* runs, leaves each alias list that was persisted under T when the save
\* opened the file as a prefix of the list persisted after it.
C12_ListsOnlyGrow ==
    [][\A p \in Sessions :
          SaveStep(p) =>
              \A c \in DOMAIN GetPartition(run[p].before.data, run[p].table) :
                  IsPrefix(run[p].before.data[run[p].table][c],
                           GetAliases(GetPartition(file'.data, run[p].table), c))]_vars

\* no alias list of the persisted store holds a string twice
NoDupStore ==
    \A t \in DOMAIN file.data : \A c \in DOMAIN file.data[t] : NoDup(file.data[t][c])

\* C13: the persisted alias lists never hold a duplicate, and a save of a run
\* for table T puts no alias under another table's key.
C13_DedupAndPartition ==
    /\ []NoDupStore
    /\ [][\A p \in Sessions :
             SaveStep(p) =>
                 \A u \in DOMAIN file'.data \ {run[p].table} : \A c \in DOMAIN file'.data[u] :
                     Range(file'.data[u][c]) \subseteq
                         Range(GetAliases(GetPartition(run[p].before.data, u), c))]_vars

\* a second run got an alias the first run had stored and saved again, in a
\* store that holds another table's partition too
C13_Witness ==
    \E p \in Sessions :
        /\ last[p].repeat
        /\ last[p].mapping # {}
        /\ pc[p] = "done" /\ run[p].written
        /\ DOMAIN file.data \ {run[p].table} # {}
        /\ \E item \in last[p].mapping : item[2] \in Range(last[p].before[item[1]])

\* C14: a run that finds no alias file starts every registry column with an
\* empty alias list, ends with success and no error, and its save creates
\* the file with the current table's partition.
C14_MissingFile ==
    \A p \in Sessions :
        run[p].store = "missing" =>
            /\ pc[p] = "collect" =>
                  run[p].historical_mappings =
                      [c \in Range(Names(TARGET_COLUMNS[p])) |-> <<>>]
            /\ pc[p] = "done" => (result[p].success /\ result[p].error = NoneV)
            /\ (pc[p] = "done" /\ run[p].written) =>
                  file = Stored([t \in {run[p].table} |-> run[p].historical_mappings])

\* a run that found no file has saved an alias it learned
C14_Witness ==
    \E p \in Sessions :
        /\ run[p].store = "missing"
        /\ pc[p] = "done" /\ run[p].written
        /\ Readable(file)
        /\ \E c \in DOMAIN file.data[run[p].table] : file.data[run[p].table][c] # <<>>

\* C15: a run that finds an alias file that is not valid JSON completes with
\* an empty partition and tells its caller of the read error, in its result
\* or in a warning, which a run that finds no file does not give.
C15_MalformedSurfaced ==
    \A p \in Sessions :
        run[p].store = "malformed" =>
            /\ pc[p] = "collect" =>
                  run[p].historical_mappings =
                      [c \in Range(Names(TARGET_COLUMNS[p])) |-> <<>>]
            /\ pc[p] = "done" =>
                  /\ result[p].success
                  /\ result[p].error # NoneV \/ WarnLoad \in result[p].warnings

(***************************************************************************)
(* Claims about save_to_database (SpecDb)                                  *)
(***************************************************************************)
\* no column of the formatted table has the name of a listed destination
\* column, case ignored
ZeroMatch ==
    \A i \in DOMAIN conn.listed : \A j \in DOMAIN conn.df.columns :
        Lower(conn.df.columns[j]) # Lower(conn.listed[i])

\* C16: when no formatted column matches a destination column the call
\* returns failure with a message, executes no DELETE and no INSERT and
\* leaves the destination rows as they were; when the columns could be
\* read the message is the one of the rejection.
C16_ZeroMatchRejected ==
    (conn.pc = "done" /\ ZeroMatch) =>
        /\ ~conn.result.success
        /\ conn.result.message \in {MsgNoConnection, MsgError, MsgNoMatch}
        /\ ~conn.deleted /\ conn.inserted = 0
        /\ conn.table = conn.old

\* a table with rows and a column none of the destination's was rejected
\* while the destination held rows
C16_Witness ==
    /\ conn.pc = "done"
    /\ ZeroMatch
    /\ conn.listed # <<>> /\ conn.df.columns # <<>> /\ conn.df.rows # <<>>
    /\ conn.old # <<>>
    /\ conn.result.message = MsgNoMatch

\* the value the destination column c takes from a formatted row: that of
\* the first formatted column with c's name, case ignored
ExpectedValue(row, c) ==
    LET js == {j \in DOMAIN conn.df.columns : Lower(conn.df.columns[j]) = Lower(c)}
    IN  IF js = {} THEN Null
        ELSE row[conn.df.columns[CHOOSE j \in js : \A k \in js : j <= k]]

ExpectedRows ==
    [i \in DOMAIN conn.df.rows |->
        [c \in Range(DestColumns) |-> ExpectedValue(conn.df.rows[i], c)]]

\* C17: the destination table holds the rows it held before the call until
\* the call returns success, and then exactly the new rows; a call that
\* returns failure leaves the old rows, whichever statement failed.
C17_AllOrNothing ==
    IF conn.pc = "done" /\ conn.result.success
    THEN conn.table = ExpectedRows
    ELSE conn.table = conn.old

\* the old rows were deleted, a row was inserted, the next INSERT failed, and
\* the call returned failure
C17_Witness ==
    /\ conn.pc = "done"
    /\ ~conn.result.success
    /\ conn.deleted /\ conn.inserted = 2
    /\ conn.old # <<>>

(***************************************************************************)
(* Claims about the oracle calls (SpecWait)                                *)
(***************************************************************************)
\* C18: a run never waits without end: until it has returned it always has
\* a step to take, also while the oracle does not respond to a call (the
\* call is ended and counted as a failure).
C18_NoIndefiniteHang ==
    wait.stage # "returned" => ENABLED WtNext

(***************************************************************************)
(* Claims about the page (SpecPage)                                        *)
(***************************************************************************)
\* C19: a user's change of one column's mapping makes no further sheet
\* classification call and no further classification call of any column,
\* and leaves the selected mapping of every other target column as it was.
C19_OverrideLocality ==
    [][page'.overrides = page.overrides + 1 =>
          /\ page'.sheetCalls = page.sheetCalls
          /\ page'.colCalls = page.colCalls
          /\ \A u \in PgTargets \ {page'.target} : page'.widget[u] = page.widget[u]]_vars

(***************************************************************************)
(* Claims about row deletion (SpecRows)                                    *)
(***************************************************************************)
\* the value of column c in the row labelled l
RowValue(table, c, l) ==
    LET i == CHOOSE j \in DOMAIN table.index : table.index[j] = l
    IN  table.data[c][i]

\* the labels of a table, in their order, without those in a set
LabelsWithout(index, gone) == SelectSeq(index, LAMBDA l : l \notin gone)

\* C20: delete_rows(table, S) removes exactly the rows whose index is in S
\* (the labels left are the table's labels not in S, in their order, each
\* row with its values), labels of S the table does not have are ignored,
\* and applying the same deletion to the result changes nothing.
C20_DeleteRowsIdempotent ==
    grid.deletes > 0 =>
        LET before == grid.last.before
            S == grid.last.row_indices
        IN  /\ grid.table.index = LabelsWithout(before.index, S)
            /\ grid.table.columns = before.columns
            /\ \A c \in DOMAIN before.data :
                  /\ Len(grid.table.data[c]) = Len(grid.table.index)
                  /\ \A l \in Range(grid.table.index) :
                        RowValue(grid.table, c, l) = RowValue(before, c, l)
            /\ (S \cap Range(before.index) = {} => grid.table = before)
            /\ grid.last.again = grid.table

\* a deletion from a table whose labels already have a gap, naming a label
\* the table has and labels it does not have, one of them below the largest
C20_Witness ==
    /\ grid.deletes > 0
    /\ grid.last.before.index # RangeIndex(Len(grid.last.before.index))
    /\ \E l \in grid.last.row_indices : l \in Range(grid.last.before.index)
    /\ \E l \in grid.last.row_indices :
          /\ l \notin Range(grid.last.before.index)
          /\ l < MaxTableRows
    /\ grid.table.index # <<>>

(***************************************************************************)
(* Claims about one coordinator call (SpecBatch)                           *)
(***************************************************************************)
\* the target columns whose own classification gave a column
BtSucceeded ==
    {t \in DOMAIN batch.task :
        batch.task[t].out.kind = "return" /\ ~Falsy(batch.task[t].out.value)}

\* the call is over: it returned its mapping or raised out of its update
BtOver == batch.on /\ batch.stage \in {"update", "returned", "raised"}

\* C21: in whatever order the tasks end and are collected, the mapping the
\* coordinator ends with has a target column as key exactly when that
\* column's own classification gave a source column, and then holds that
\* source column under it.
C21_OrderIndependent ==
    BtOver =>
        /\ DictKeys(batch.column_mappings) = BtSucceeded
        /\ Len(batch.column_mappings) = Cardinality(BtSucceeded)
        /\ \A t \in BtSucceeded :
              DictValue(batch.column_mappings, t) = batch.task[t].out.value

\* the call returned after its tasks were collected against the order of
\* target_columns, each with a different source column
C21_Witness ==
    /\ batch.on /\ batch.stage = "returned"
    /\ Len(batch.column_mappings) = 2
    /\ batch.column_mappings[1].k = BtNames[2]
    /\ batch.column_mappings[2].k = BtNames[1]
    /\ batch.column_mappings[1].v # batch.column_mappings[2].v

\* C22: the coordinator is over (it returned its mapping, or raised out of
\* the update that follows the pool) only when every task it submitted has
\* ended and its future has been collected: a task that is slow keeps the
\* call waiting and is never left behind.
C22_DrainBeforeReturn ==
    (batch.on /\ batch.stage \in {"returned", "raised"}) =>
        \A t \in DOMAIN batch.task :
            /\ batch.task[t].st = "done"
            /\ t \in batch.collected

\* the call returned with every future collected, one task having raised
C22_Witness ==
    /\ batch.on /\ batch.stage = "returned"
    /\ batch.collected = Range(BtNames)
    /\ \E t \in DOMAIN batch.task : batch.task[t].out = Raised

\* the alias list a successful pair must leave for its target column, given
\* the list the partition held for it when it was passed in
Learned(old, s) == IF s \in Range(old) THEN old ELSE Append(old, s)

\* C23: when the call is over and was given a partition, with
\* update_historical set every pair (t -> s) of the mapping has left s in
\* t's list of the partition, appended at the end unless it was there, the
\* earlier entries kept in order; with update_historical not set the
\* partition is as it was passed in.  This holds for every partition, the
\* empty one and one that lacks t's entry included, and the call returns.
C23_AliasLearning ==
    (BtOver /\ batch.stage # "update" /\ batch.given) =>
        /\ batch.stage = "returned"
        /\ IF batch.update_historical
           THEN \A i \in DOMAIN batch.column_mappings :
                   LET t == batch.column_mappings[i].k
                       s == batch.column_mappings[i].v
                   IN  /\ t \in DOMAIN batch.historical_mappings
                       /\ batch.historical_mappings[t] =
                             Learned(GetAliases(batch.start, t), s)
           ELSE batch.historical_mappings = batch.start

\* the partition changes in this step
BtMutation == batch'.historical_mappings # batch.historical_mappings

\* C24: within one call the partition's alias lists are changed only when
\* every task has ended and been collected, one append to one list per
\* step of the one thread that updates them; so every task, whenever it
\* ran, read its alias lists as they were when the call began.
C24_MutationSerialized ==
    /\ [](batch.on =>
            \A t \in DOMAIN batch.task :
                batch.task[t].st # "queued" =>
                    batch.task[t].sent =
                        AllVariations(BtColumn(batch, t), batch.given, batch.start))
    /\ [][(batch.on /\ BtMutation) =>
            /\ \A t \in DOMAIN batch.task :
                  /\ batch.task[t].st = "done" /\ t \in batch.collected
                  /\ batch'.task[t] = batch.task[t]
            /\ \E t \in DOMAIN batch.historical_mappings :
                  /\ Len(batch'.historical_mappings[t]) = Len(batch.historical_mappings[t]) + 1
                  /\ \A u \in DOMAIN batch.historical_mappings \ {t} :
                        batch'.historical_mappings[u] = batch.historical_mappings[u]]_vars

\* an alias was appended to the partition after every task had read the
\* lists of a partition that already held aliases
C24_Witness ==
    /\ batch.on /\ batch.stage = "returned"
    /\ batch.historical_mappings # batch.start
    /\ \E t \in DOMAIN batch.start : batch.start[t] # <<>>
    /\ \A t \in DOMAIN batch.task : batch.task[t].st = "done"

\* a task of the pool takes a step in identify_column
BtTaskStep == \E t \in DOMAIN batch.task : batch'.task[t] # batch.task[t]

\* C25: a call of identify_column, from reading the alias lists to its
\* return or exception, leaves the historical_variations of every target
\* column of the registry and the partition passed to it as they were.
C25_ColumnStateless ==
    [][(batch.on /\ BtTaskStep) =>
          /\ batch'.target_columns = batch.target_columns
          /\ batch'.historical_mappings = batch.historical_mappings]_vars

\* a call that failed had put into its prompt a list longer than its
\* target column's own: aliases of the partition were appended to the copy
C25_Witness ==
    /\ batch.on
    /\ \E t \in DOMAIN batch.task :
          /\ batch.task[t].st = "done"
          /\ batch.task[t].out \in {Raised, Returned(NoneV)}
          /\ Len(batch.task[t].sent) > Len(BtColumn(batch, t).historical_variations)
    /\ \E t \in DOMAIN batch.task :
          /\ batch.task[t].st = "done"
          /\ batch.task[t].out.kind = "return" /\ ~Falsy(batch.task[t].out.value)

\* the entries of a list that are not in another, in their order
NotIn(more, own) == SelectSeq(more, LAMBDA v : v \notin Range(own))

\* C26: the alias list a call of identify_column puts into its prompt is
\* its target column's own historical_variations followed by the entries of
\* the partition's list for that column that are not among them, in their
\* order (nothing is added when no partition is given or it has no entry),
\* and it holds no alias twice.
C26_CombinedAliases ==
    batch.on =>
        \A t \in DOMAIN batch.task :
            batch.task[t].st # "queued" =>
                LET own == BtColumn(batch, t).historical_variations
                    more == IF batch.given THEN GetAliases(batch.start, t) ELSE <<>>
                IN  /\ batch.task[t].sent = own \o NotIn(more, own)
                    /\ NoDup(batch.task[t].sent)

\* a call whose target column and partition both hold aliases, one of them
\* in both: the combined list is shorter than the two together
C26_Witness ==
    /\ batch.on
    /\ \E t \in DOMAIN batch.task :
          LET own == BtColumn(batch, t).historical_variations
          IN  /\ batch.task[t].st = "done"
              /\ own # <<>>
              /\ batch.given /\ t \in DOMAIN batch.start
              /\ Len(batch.task[t].sent) > Len(own)
              /\ Len(batch.task[t].sent) < Len(own) + Len(batch.start[t])

(***************************************************************************)
(* Claims about the alias file and the registry (Spec, SpecOverlap)        *)
(***************************************************************************)
\* load_historical_variations of session p writes the file it creates
LoadStep(p) == pc[p] = "sel_dump" /\ pc'[p] = "idle" /\ Readable(file')

\* C27: load_historical_variations for the selected table, whatever it
\* found when it read the alias file, leaves every entry of another table
\* that the file held when the loader opened it for writing in the file,
\* unchanged.
C27_LoadNeverClobbers ==
    [][\A p \in Sessions :
          LoadStep(p) =>
              \A u \in DOMAIN run[p].before.data \ {selected_table[p]} :
                  /\ u \in DOMAIN file'.data
                  /\ file'.data[u] = run[p].before.data[u]]_vars

\* C28: a run that came to its save and did not write the alias file (the
\* write failed; one session is at work) gives the warning of the failed
\* save and still returns success with the whole column mapping it
\* produced, and no error.
C28_WriteFailureKeepsMapping ==
    \A p \in Sessions :
        (pc[p] = "done" /\ run[p].store # NoneV /\ ~run[p].written) =>
            /\ result[p].success
            /\ result[p].warnings = {WarnSave}
            /\ result[p].column_mappings = run[p].column_mappings
            /\ result[p].error = NoneV
            /\ result[p].target_sheet # NoneV

\* a run that mapped both target columns could not open the file for
\* writing and returned the mapping with the warning
C28_Witness ==
    \E p \in Sessions :
        /\ pc[p] = "done"
        /\ WarnSave \in result[p].warnings
        /\ result[p].success
        /\ Len(result[p].column_mappings) = 2

\* a call of select_database_table by session p returns and marks a table
\* as selected for the first time in the session (lines 92 and 99; a call
\* that raises does not come to either)
FirstSelected(p) == ~table_selected[p] /\ table_selected'[p]

\* C29: when select_database_table has returned, true or false, the
\* registry is the column list of the table now recorded as selected: the
\* names of TARGET_COLUMNS are the columns the database lists for it, in
\* their order, or none (TARGET_COLUMN_DICT and TARGET_COLUMN_NAMES are
\* assigned from TARGET_COLUMNS in the same lines); the defaults do not
\* stay active under the table's identifier.
C29_RegistryFollowsTable ==
    [][\A p \in Sessions :
          FirstSelected(p) =>
              Names(TARGET_COLUMNS'[p]) \in {DbColumns(selected_table'[p]), <<>>}]_vars

\* the aliases the registry of session p holds for target column t
RegistryAliases(p, t) ==
    UNION {Range(TARGET_COLUMNS[p][i].historical_variations) :
              i \in {j \in DOMAIN TARGET_COLUMNS[p] : TARGET_COLUMNS[p][j].name = t}}

\* session p is in a run that follows, for the same table, a run of the
\* session that saved its mapping (and no other selection or writer came in
\* between)
NextRun(p) == last[p].valid /\ last[p].table = run[p].table

\* the column tasks of the run get the alias s for target column t
ColumnsKnow(p, t, s) ==
    pc[p] = "collect" =>
        (t \in DOMAIN run[p].historical_mappings
            /\ s \in Range(run[p].historical_mappings[t]))

\* C30: in the run that follows a saved run for the same table, every pair
\* (t -> s) the saved run confirmed is among the aliases of t given to the
\* sheet classifier (the registry's historical_variations, which the run
\* has passed to identify_target_sheet) and among those given to the column
\* classifier (the partition loaded for the run).
C30_LearnedAliasesReachNextRun ==
    \A p \in Sessions :
        (pc[p] \in {"load", "collect"} /\ NextRun(p)) =>
            \A item \in last[p].mapping :
                /\ item[2] \in RegistryAliases(p, item[1])
                /\ ColumnsKnow(p, item[1], item[2])

\* the part of it that is about the column classifier
ColumnClassifierKnows ==
    \A p \in Sessions :
        (pc[p] \in {"load", "collect"} /\ NextRun(p)) =>
            \A item \in last[p].mapping : ColumnsKnow(p, item[1], item[2])

====
